---- MODULE Spec2Model ----
(***************************************************************************)
(* vStore: the ABCI application of securesharelabs/vstore as a state       *)
(* machine.  One replica (state, stage, db) is driven by the consensus     *)
(* engine through CheckTx, FinalizeBlock, Commit, Query, Info; a second    *)
(* replica (peer) receives the same FinalizeBlock/Commit calls under a     *)
(* different identity secret and different encryption nonces.  running is  *)
(* the position of a Commit call that is executed one database write at a  *)
(* time while Query and Info are served on another connection.             *)
(*                                                                         *)
(* Byte strings are sequences of tokens.  A token is a tuple whose first   *)
(* element is a tag: <<"s", str>> a literal segment, <<"dec", n>> the      *)
(* base-10 text of n, <<"pk", n>> the raw public key of signer n,          *)
(* <<"tx", signer, body, secs>> the SHA-256 digest of a transaction,       *)
(* <<"leaf", b>>, <<"inner", l, r>> and <<"empty">> the digests of the     *)
(* Merkle tree.  Digests are injective (no collisions).                    *)
(***************************************************************************)
EXTENDS Integers, Sequences, FiniteSets, TLC

VARIABLES state, stage, db, resp, crashed, peer, hist, running, vault

vars == <<state, stage, db, resp, crashed, peer, hist, running, vault>>

(***************************************************************************)
(* Bounds of the model.                                                    *)
(***************************************************************************)
MaxTxs == 3          \* transactions delivered to FinalizeBlock in one behaviour
MaxBlockLen == 2     \* transactions per FinalizeBlock request
MaxHeight == 2       \* request heights are 1..MaxHeight
MaxDistinctTxs == 2  \* distinct byte strings delivered to FinalizeBlock in one behaviour
MaxProposalLen == 4  \* transactions per PrepareProposal / ProcessProposal request
MaxSecs == 2         \* seconds of the timestamps of the transactions encoded
MaxNanos == 1        \* nanoseconds of the timestamps of the transactions encoded

(***************************************************************************)
(* Return codes.                                                           *)
(***************************************************************************)
CodeTypeOK == 0
CodeTypeEmptyDataError == 1
CodeTypeInvalidFormatError == 2
CodeTypeInvalidSignatureError == 3

SignatureSize == 64

(***************************************************************************)
(* Byte strings and database keys.                                         *)
(***************************************************************************)
Lit(s) == <<"s", s>>

stateKey == <<Lit("vfsState")>>
vfsPrefixKey == <<Lit("vfs:")>>
vfsPrefixKeyByHeight == <<Lit("vfs:"), Lit("height:")>>
vfsPrefixKeyByPubKey == <<Lit("vfs:"), Lit("pubkey:")>>

prefixKey(key) == vfsPrefixKey \o key
prefixKeyWith(key, prefix) == prefix \o key

FormatInt(n) == << <<"dec", n>> >>

\* ed25519.PubKey.Bytes(): the raw key; signer 0 is the absent (nil) key.
SignerBytes(signer) == IF signer = 0 THEN <<>> ELSE << <<"pk", signer>> >>

(***************************************************************************)
(* Ed25519.  A signature records who signed which message; its length is   *)
(* 64 unless bytes were appended (65) or the field is absent (0).          *)
(***************************************************************************)
Sign(priv, msg) == [by |-> priv, over |-> msg, len |-> SignatureSize]
NoSignature == [by |-> 0, over |-> <<>>, len |-> 0]
AppendByte(sig) == [sig EXCEPT !.len = @ + 1]

VerifySignature(pub, msg, sig) ==
    /\ sig.len = SignatureSize
    /\ pub # 0
    /\ sig.by = pub
    /\ sig.over = msg

(***************************************************************************)
(* Merkle tree of cometbft (crypto/merkle), RFC-6962 style.                *)
(***************************************************************************)
RECURSIVE getSplitPointFrom(_, _)
getSplitPointFrom(n, k) == IF 2 * k < n THEN getSplitPointFrom(n, 2 * k) ELSE k
getSplitPoint(n) == getSplitPointFrom(n, 1)

RECURSIVE HashFromByteSlices(_)
HashFromByteSlices(items) ==
    IF Len(items) = 0 THEN << <<"empty">> >>
    ELSE IF Len(items) = 1 THEN << <<"leaf", items[1]>> >>
    ELSE LET k == getSplitPoint(Len(items))
             left == HashFromByteSlices(SubSeq(items, 1, k))
             right == HashFromByteSlices(SubSeq(items, k + 1, Len(items)))
         IN  << <<"inner", left, right>> >>

(***************************************************************************)
(* Transaction codec.  A wire value is what proto.Unmarshal sees: either   *)
(* bytes that do not parse (ok = FALSE) or a Transaction message.          *)
(***************************************************************************)
ZeroTime == [secs |-> 0, nanos |-> 0]

Wire(signer, sig, hash, time, len, body) ==
    [ok |-> TRUE, Signer |-> signer, Signature |-> sig, Hash |-> hash,
     Time |-> time, Len |-> len, Body |-> body]

Malformed == [ok |-> FALSE, Signer |-> 0, Signature |-> NoSignature, Hash |-> <<>>,
              Time |-> ZeroTime, Len |-> 0, Body |-> <<>>]

\* the empty byte string parses to the message with every field unset
EmptyBytes == Wire(0, NoSignature, <<>>, ZeroTime, 0, <<>>)

NilTx == [Signer |-> 0, Hash |-> <<>>, Signature |-> NoSignature, Size |-> 0,
          Time |-> ZeroTime, Data |-> <<>>]

ComputeHash(p) == << <<"tx", p.Signer, p.Data, p.Time.secs>> >>

FromProto(pb) ==
    [err |-> FALSE,
     stx |-> [Signer |-> pb.Signer, Hash |-> pb.Hash, Signature |-> pb.Signature,
              Size |-> pb.Len, Time |-> pb.Time, Data |-> pb.Body]]

FromBytes(bz) ==
    IF ~bz.ok THEN [err |-> TRUE, stx |-> NilTx] ELSE FromProto(bz)

NewSignedTransactionFromBytes(tx) ==
    LET r == FromBytes(tx) IN
    IF r.err THEN r
    ELSE IF Len(r.stx.Hash) = 0
         THEN [r EXCEPT !.stx.Hash = ComputeHash(r.stx)]
         ELSE r

Verify(p) == VerifySignature(p.Signer, p.Data, p.Signature)

\* uppercase hex of the signer key: injective and order preserving, so the
\* key of the map is the signer itself
PublicKey(p) == p.Signer

\* mutant: the protobuf is built without the signature
ToProtoNoSignature(p) ==
    Wire(p.Signer, NoSignature,
         IF Len(p.Hash) = 0 THEN ComputeHash(p) ELSE p.Hash,
         [secs |-> p.Time.secs, nanos |-> 0],
         Len(p.Data), p.Data)

\* mutant: the protobuf is built with the hash field as it is
ToProtoKeepEmptyHash(p) ==
    Wire(p.Signer, p.Signature, p.Hash,
         [secs |-> p.Time.secs, nanos |-> 0],
         Len(p.Data), p.Data)

ToProto(p) ==
    Wire(p.Signer, p.Signature,
         IF Len(p.Hash) = 0 THEN ComputeHash(p) ELSE p.Hash,
         [secs |-> p.Time.secs, nanos |-> 0],
         Len(p.Data), p.Data)

Bytes(p) == ToProto(p)

(***************************************************************************)
(* AES-256-GCM.  A sealed value remembers the key and the nonce.           *)
(***************************************************************************)
Encrypt(secret, nonce, data) == <<"sealed", secret, nonce, data>>

Decrypt(secret, ciphertext) ==
    IF ciphertext[1] = "sealed" /\ ciphertext[2] = secret
    THEN [err |-> FALSE, data |-> ciphertext[4]]
    ELSE [err |-> TRUE, data |-> Malformed]

\* gcm.NonceSize()
NonceSize == 12
\* sha256.Size and ed25519.PubKeySize
DigestSize == 32

\* the number of bytes of one element of a hash or key: a digest or a public
\* key, the literals "height:" and "pubkey:", or one byte
ElemLen(e) ==
    IF e[1] \in {"tx", "pk"} THEN DigestSize
    ELSE IF e = <<"s", "height:">> \/ e = <<"s", "pubkey:">> THEN 7
    ELSE 1

RECURSIVE ByteLen(_)
ByteLen(bz) == IF bz = <<>> THEN 0 ELSE ElemLen(Head(bz)) + ByteLen(Tail(bz))

\* base64.StdEncoding.EncodedLen(n)
Base64Len(n) == ((n + 2) \div 3) * 4

\* the length of json.Marshal of a non-empty [][]byte: brackets, one quoted
\* base64 string for each entry, commas between them
RECURSIVE EntriesLen(_)
EntriesLen(list) ==
    IF list = <<>> THEN 0
    ELSE 2 + Base64Len(ByteLen(Head(list))) + EntriesLen(Tail(list))

JSONLen(list) == 2 + EntriesLen(list) + (IF list = <<>> THEN 0 ELSE Len(list) - 1)

\* Decrypt slices ciphertext[:saltSize] without checking the length: a stored
\* value shorter than the nonce makes it panic.  A sealed value carries its
\* nonce and tag; an index row is as long as its JSON.
DecryptPanics(ciphertext) ==
    ciphertext[1] = "json" /\ JSONLen(ciphertext[2]) < NonceSize

(***************************************************************************)
(* Secrets and the identity file.  A secret is a SHA-256 digest            *)
(* <<"sha256", input>> (32 bytes) or a raw key <<"key", size, id>>; a      *)
(* password and a salt are sequences of bytes; a private key is            *)
(* <<"priv", k>> (64 bytes) and its public key PubKeyOf <<"pk", k>>.       *)
(***************************************************************************)
tmhashSum(bz) == <<"sha256", bz>>

KeySize(secret) == IF secret[1] = "sha256" THEN 32 ELSE secret[2]

\* aes.NewCipher accepts keys of 16, 24 and 32 bytes
NewCipher(secret) == KeySize(secret) \in {16, 24, 32}

\* mutant: Encrypt without the key size check
EncryptWithErrorNoKeyCheck(secret, nonce, data) ==
    [err |-> FALSE, out |-> Encrypt(secret, nonce, data)]

\* Encrypt with its error result: the key is checked by aes.NewCipher
EncryptWithError(secret, nonce, data) ==
    IF ~NewCipher(secret) THEN [err |-> TRUE, out |-> <<>>]
    ELSE [err |-> FALSE, out |-> Encrypt(secret, nonce, data)]

\* mutant: Decrypt that does not authenticate the ciphertext
DecryptWithErrorNoAuth(secret, ciphertext) ==
    IF ~NewCipher(secret) THEN [err |-> TRUE, out |-> <<>>]
    ELSE [err |-> FALSE, out |-> ciphertext[4]]

\* Decrypt with its error result, for any secret
DecryptWithError(secret, ciphertext) ==
    IF ~NewCipher(secret) THEN [err |-> TRUE, out |-> <<>>]
    ELSE LET r == Decrypt(secret, ciphertext)
         IN  IF r.err THEN [err |-> TRUE, out |-> <<>>]
             ELSE [err |-> FALSE, out |-> r.data]

\* mutant: the salt is not checked and not hashed
GenerateSecretUnsalted(pw, salt, random) ==
    IF Len(pw) = 0 THEN [err |-> TRUE, secret |-> <<>>, salt |-> <<>>]
    ELSE [err |-> FALSE, secret |-> tmhashSum(pw),
          salt |-> IF Len(salt) = 0 THEN random ELSE salt]

\* random: the 8 bytes read from rand.Reader when no salt is given
GenerateSecret(pw, salt, random) ==
    IF Len(pw) = 0 THEN [err |-> TRUE, secret |-> <<>>, salt |-> <<>>]
    ELSE IF Len(salt) # 0 /\ Len(salt) # 8
    THEN [err |-> TRUE, secret |-> <<>>, salt |-> <<>>]
    ELSE LET s == IF Len(salt) = 0 THEN random ELSE salt
         IN  [err |-> FALSE, secret |-> tmhashSum(s \o pw), salt |-> s]

PubKeyOf(priv) == <<"pk", priv[2]>>

Base64Encode(bz) == <<"b64", bz>>

Base64Decode(text) ==
    IF text[1] = "b64" THEN [err |-> FALSE, out |-> text[2]]
    ELSE [err |-> TRUE, out |-> <<>>]

WriteFile(fs, path, content) ==
    [f \in DOMAIN fs \cup {path} |-> IF f = path THEN content ELSE fs[f]]

\* priv, random and nonce are the key, the salt and the nonce drawn at random;
\* the file is the salt followed by the ciphertext, base64-encoded
MustGenerateIdentity(fs, idFile, pw, priv, random, nonce) ==
    IF Len(pw) = 0 THEN [panic |-> TRUE, fs |-> fs]
    ELSE LET g == GenerateSecret(pw, <<>>, random)
             e == EncryptWithError(g.secret, nonce, priv)
         IN  IF g.err \/ e.err THEN [panic |-> TRUE, fs |-> fs]
             ELSE [panic |-> FALSE,
                   fs |-> WriteFile(WriteFile(fs, idFile, Base64Encode(g.salt \o <<e.out>>)),
                                    idFile \o ".pub", Base64Encode(<<PubKeyOf(priv)>>))]

\* identityFile.Bytes
IdentityBytes(fs, id) ==
    IF id.Path \notin DOMAIN fs THEN [err |-> "could not open id file", out |-> <<>>]
    ELSE LET d == Base64Decode(fs[id.Path])
         IN  IF d.err THEN [err |-> "base64", out |-> <<>>]
             ELSE [err |-> "", out |-> d.out]

\* identityFile.Open
Open(fs, id) ==
    IF Len(id.pw) = 0 THEN [err |-> "password must not be empty", out |-> <<>>]
    ELSE LET b == IdentityBytes(fs, id) IN
         IF b.err # "" THEN b
         ELSE LET salt == SubSeq(b.out, 1, 8)
                  ctbz == SubSeq(b.out, 9, Len(b.out))
                  secret == GenerateSecret(id.pw, salt, salt).secret
                  r == DecryptWithError(secret, ctbz[1])
              IN  IF r.err THEN [err |-> "decrypt", out |-> <<>>]
                  ELSE [err |-> "", out |-> r.out]

\* identityFile.PrivKey and PubKey
PrivKey(fs, id) == Open(fs, id)

PubKey(fs, id) ==
    LET priv == PrivKey(fs, id)
    IN  IF priv.err # "" THEN priv ELSE [err |-> "", out |-> PubKeyOf(priv.out)]

(***************************************************************************)
(* Database (cometbft-db): a map from keys to values.  Values are tagged:  *)
(* <<"sealed", ..>> a sealed transaction, <<"json", list>> an index row,   *)
(* <<"state", s>> the JSON of the state, <<"nil">> the absent value.       *)
(***************************************************************************)
Nil == <<"nil">>
Has(d, key) == key \in DOMAIN d
Get(d, key) == IF key \in DOMAIN d THEN d[key] ELSE Nil
Set(d, key, value) == [k \in DOMAIN d \cup {key} |-> IF k = key THEN value ELSE d[k]]
EmptyDB == [k \in {} |-> Nil]

\* json.Unmarshal into [][]byte: a value that is not a JSON list leaves txes empty
UnmarshalHashes(data) == IF data[1] = "json" THEN data[2] ELSE <<>>

(***************************************************************************)
(* State: NumTransactions, Height and the per-signer Merkle roots.         *)
(***************************************************************************)
EmptyRoots == [k \in {} |-> <<>>]
ZeroState == [NumTransactions |-> 0, Height |-> 0, MerkleRoots |-> EmptyRoots]

\* sort.Strings over the keys collected from the map, by insertion
RECURSIVE InsertSorted(_, _)
InsertSorted(keys, k) ==
    IF Len(keys) = 0 THEN <<k>>
    ELSE IF k <= keys[1] THEN <<k>> \o keys
    ELSE <<keys[1]>> \o InsertSorted(Tail(keys), k)

RECURSIVE SortStrings(_)
SortStrings(keySet) ==
    IF keySet = {} THEN <<>>
    ELSE LET k == CHOOSE x \in keySet : TRUE
         IN  InsertSorted(SortStrings(keySet \ {k}), k)

\* mutant: the keys are not sorted (here: taken in the reverse order)
MerkleRootsUnsorted(s) ==
    LET keys == SortStrings(DOMAIN s.MerkleRoots)
    IN  [j \in 1..Len(keys) |-> s.MerkleRoots[keys[Len(keys) + 1 - j]]]

\* State.MerkleRoots(): the roots in the order of the sorted keys
MerkleRoots(s) ==
    LET keys == SortStrings(DOMAIN s.MerkleRoots)
    IN  [j \in 1..Len(keys) |-> s.MerkleRoots[keys[j]]]

\* State.Hash(): the AppHash
Hash(s) == HashFromByteSlices(MerkleRoots(s))

\* json.Marshal of a State: the object {num_transactions, height,
\* merkle_roots}, the entries of the map in the order of their keys
MarshalState(s) ==
    LET keys == SortStrings(DOMAIN s.MerkleRoots)
    IN  <<"state", [num_transactions |-> s.NumTransactions,
                    height |-> s.Height,
                    merkle_roots |-> [j \in 1..Len(keys) |->
                                         <<keys[j], s.MerkleRoots[keys[j]]>>]]>>

\* json.Unmarshal into a State
UnmarshalState(stateBytes) ==
    LET o == stateBytes[2]
        entries == o.merkle_roots
    IN  [NumTransactions |-> o.num_transactions,
         Height |-> o.height,
         MerkleRoots |-> [k \in { entries[j][1] : j \in DOMAIN entries } |->
                             entries[CHOOSE j \in DOMAIN entries : entries[j][1] = k][2]]]

\* mutant: the state is saved under the prefixed key
saveStatePrefixed(s, d) == Set(d, prefixKey(stateKey), MarshalState(s))

\* json.Marshal(state) stored under stateKey
saveState(s, d) == Set(d, stateKey, MarshalState(s))

loadState(d) ==
    LET stateBytes == Get(d, stateKey)
    IN  IF stateBytes = Nil THEN ZeroState ELSE UnmarshalState(stateBytes)

(***************************************************************************)
(* The application: app = [state, stage, db].                              *)
(***************************************************************************)
NewApp(d) == [state |-> loadState(d), stage |-> <<>>, db |-> d]

\* mutant: the signature is not verified
validateTxNoVerify(tx) ==
    LET r == FromBytes(tx) IN
    IF r.err THEN CodeTypeInvalidFormatError
    ELSE IF r.stx.Size = 0 \/ Len(r.stx.Data) = 0 THEN CodeTypeEmptyDataError
    ELSE CodeTypeOK

\* mutant: the signature is verified before the emptiness test
validateTxSignatureFirst(tx) ==
    LET r == FromBytes(tx) IN
    IF r.err THEN CodeTypeInvalidFormatError
    ELSE IF ~Verify(r.stx) THEN CodeTypeInvalidSignatureError
    ELSE IF r.stx.Size = 0 \/ Len(r.stx.Data) = 0 THEN CodeTypeEmptyDataError
    ELSE CodeTypeOK

\* mutant: a transaction whose hash is already stored is rejected
validateTxRejectStored(tx) ==
    LET r == FromBytes(tx) IN
    IF r.err THEN CodeTypeInvalidFormatError
    ELSE IF r.stx.Size = 0 \/ Len(r.stx.Data) = 0 THEN CodeTypeEmptyDataError
    ELSE IF ~Verify(r.stx) THEN CodeTypeInvalidSignatureError
    ELSE IF Has(db, prefixKey(NewSignedTransactionFromBytes(tx).stx.Hash))
         THEN CodeTypeInvalidFormatError
    ELSE CodeTypeOK

validateTx(tx) ==
    LET r == FromBytes(tx) IN
    IF r.err THEN CodeTypeInvalidFormatError
    ELSE IF r.stx.Size = 0 \/ Len(r.stx.Data) = 0 THEN CodeTypeEmptyDataError
    ELSE IF ~Verify(r.stx) THEN CodeTypeInvalidSignatureError
    ELSE CodeTypeOK

\* CheckTx: the code of validateTx and a nil error
CheckTx(tx) == [Code |-> validateTx(tx), err |-> ""]

\* mutant: the proposal keeps the entries CheckTx rejects with empty-data
PrepareProposalKeepEmpty(txs) ==
    SelectSeq(txs, LAMBDA t : CheckTx(t).Code \in {CodeTypeOK, CodeTypeEmptyDataError})

\* the loop of PrepareProposal from entry i on
RECURSIVE filterBlockData(_, _, _)
filterBlockData(txs, i, blockData) ==
    IF i > Len(txs) THEN blockData
    ELSE LET r == CheckTx(txs[i]) IN
         IF r.Code # CodeTypeOK \/ r.err # ""
         THEN filterBlockData(txs, i + 1, blockData)
         ELSE filterBlockData(txs, i + 1, Append(blockData, txs[i]))

\* mutant: the transactions are forwarded without validation
PrepareProposalUnfiltered(txs) == txs

PrepareProposal(txs) == filterBlockData(txs, 1, <<>>)

\* mutant: only the first entry of the proposal is checked
ProcessProposalFirstOnly(txs) ==
    IF Len(txs) > 0 /\ CheckTx(txs[1]).Code # CodeTypeOK THEN "REJECT" ELSE "ACCEPT"

\* the loop of ProcessProposal from entry i on
RECURSIVE checkProposal(_, _)
checkProposal(txs, i) ==
    IF i > Len(txs) THEN "ACCEPT"
    ELSE LET r == CheckTx(txs[i]) IN
         IF r.err # "" \/ r.Code # CodeTypeOK THEN "REJECT"
         ELSE checkProposal(txs, i + 1)

ProcessProposal(txs) == checkProposal(txs, 1)

ExecTxResult(code, data) == [Code |-> code, Data |-> data]

\* The loop of processFinalizeBlock from entry i on.  When an entry does not
\* decode, payload is nil and reading payload.Hash panics: the loop stops with
\* what it has staged and counted so far.
RECURSIVE stageBlockData(_, _, _)
stageBlockData(txs, i, acc) ==
    IF i > Len(txs) THEN acc
    ELSE LET r == NewSignedTransactionFromBytes(txs[i]) IN
         IF r.err THEN [acc EXCEPT !.panic = TRUE]
         ELSE stageBlockData(txs, i + 1,
                  [stage |-> Append(acc.stage, r.stx),
                   num |-> acc.num + 1,
                   respTxs |-> Append(acc.respTxs, ExecTxResult(CodeTypeOK, r.stx.Hash)),
                   panic |-> FALSE])

processFinalizeBlock(app, req) ==
    LET acc == stageBlockData(req.Txs, 1,
                   [stage |-> <<>>, num |-> app.state.NumTransactions,
                    respTxs |-> <<>>, panic |-> FALSE])
    IN  [app |-> [app EXCEPT !.stage = acc.stage,
                             !.state.NumTransactions = acc.num,
                             !.state.Height = IF acc.panic THEN @ ELSE req.Height],
         respTxs |-> acc.respTxs,
         panic |-> acc.panic]

\* mutant: the old root is appended after the transaction hash
foldMerkleRootSwapped(roots, payload) ==
    LET pub == PublicKey(payload)
        txs == IF pub \in DOMAIN roots THEN <<payload.Hash, roots[pub]>>
               ELSE <<payload.Hash>>
        merkleRoot == HashFromByteSlices(txs)
    IN  [k \in DOMAIN roots \cup {pub} |-> IF k = pub THEN merkleRoot ELSE roots[k]]

\* one iteration of the loop of commitMerkleRoots
foldMerkleRoot(roots, payload) ==
    LET pub == PublicKey(payload)
        txs == IF pub \in DOMAIN roots THEN <<roots[pub], payload.Hash>>
               ELSE <<payload.Hash>>
        merkleRoot == HashFromByteSlices(txs)
    IN  [k \in DOMAIN roots \cup {pub} |-> IF k = pub THEN merkleRoot ELSE roots[k]]

RECURSIVE foldStage(_, _, _)
foldStage(stg, i, roots) ==
    IF i > Len(stg) THEN roots
    ELSE foldStage(stg, i + 1, foldMerkleRoot(roots, stg[i]))

commitMerkleRoots(app) ==
    [app EXCEPT !.state.MerkleRoots = foldStage(app.stage, 1, app.state.MerkleRoots)]

\* a FinalizeBlock that saves the state it has computed
FinalizeBlockSavingState(app, req) ==
    LET p == processFinalizeBlock(app, req) IN
    IF p.panic
    THEN [app |-> p.app, panic |-> TRUE, TxResults |-> <<>>, AppHash |-> <<>>]
    ELSE LET a == commitMerkleRoots(p.app)
         IN  [app |-> [a EXCEPT !.db = saveState(a.state, a.db)], panic |-> FALSE,
              TxResults |-> p.respTxs, AppHash |-> Hash(a.state)]

FinalizeBlock(app, req) ==
    LET p == processFinalizeBlock(app, req) IN
    IF p.panic
    THEN [app |-> p.app, panic |-> TRUE, TxResults |-> <<>>, AppHash |-> <<>>]
    ELSE LET a == commitMerkleRoots(p.app)
         IN  [app |-> a, panic |-> FALSE, TxResults |-> p.respTxs,
              AppHash |-> Hash(a.state)]

(***************************************************************************)
(* Commit.  fault = [at, kind] injects a storage or encryption failure at  *)
(* the at-th staged transaction (at = 0: none).                            *)
(***************************************************************************)
NoFault == [at |-> 0, kind |-> "none"]

\* the loop of Commit that persists the staged data, from entry k on
RECURSIVE persistStage(_, _, _, _, _, _)
persistStage(stg, k, d, secret, nonce, fault) ==
    IF k > Len(stg) THEN [db |-> d, err |-> ""]
    ELSE LET dbKey == prefixKey(stg[k].Hash)
             hit == fault.at = k
         IN  IF (hit /\ fault.kind = "has") \/ Has(d, dbKey)
             THEN [db |-> d, err |-> "transaction hash already exists"]
             ELSE IF hit /\ fault.kind = "enc" THEN [db |-> d, err |-> "encrypt"]
             ELSE IF hit /\ fault.kind = "set" THEN [db |-> d, err |-> "set"]
             ELSE persistStage(stg, k + 1,
                      Set(d, dbKey, Encrypt(secret, <<nonce, k>>, Bytes(stg[k]))),
                      secret, nonce, fault)

addTransactionByHeight(d, height, tx) ==
    LET dbKey_byHeight == prefixKeyWith(FormatInt(height), vfsPrefixKeyByHeight)
        data == Get(d, dbKey_byHeight)
        txes == IF data # Nil THEN UnmarshalHashes(data) ELSE <<>>
    IN  Set(d, dbKey_byHeight, <<"json", Append(txes, tx.Hash)>>)

addTransactionByPubKey(d, tx) ==
    LET dbKey_byPubKey == prefixKeyWith(SignerBytes(tx.Signer), vfsPrefixKeyByPubKey)
        data == Get(d, dbKey_byPubKey)
        txes == IF data # Nil THEN UnmarshalHashes(data) ELSE <<>>
    IN  Set(d, dbKey_byPubKey, <<"json", Append(txes, tx.Hash)>>)

RECURSIVE indexStage(_, _, _, _)
indexStage(stg, i, d, height) ==
    IF i > Len(stg) THEN d
    ELSE indexStage(stg, i + 1,
             addTransactionByPubKey(addTransactionByHeight(d, height, stg[i]), stg[i]),
             height)

commitTransactionHashes(app) ==
    [app EXCEPT !.db = indexStage(app.stage, 1, app.db, app.state.Height)]

\* mutant: the state record is sealed with the node's secret like the
\* transactions are
CommitSealedState(app, secret, nonce, fault) ==
    LET p == persistStage(app.stage, 1, app.db, secret, nonce, fault) IN
    IF p.err # ""
    THEN [app |-> [app EXCEPT !.db = p.db], err |-> p.err]
    ELSE LET a == commitTransactionHashes([app EXCEPT !.db = p.db])
         IN  [app |-> [a EXCEPT !.db = Set(a.db, stateKey,
                                          Encrypt(secret, <<nonce, 0>>, Malformed)),
                                !.stage = <<>>],
              err |-> ""]

commitStateTransitions(app) ==
    [app EXCEPT !.db = saveState(app.state, app.db), !.stage = <<>>]

Commit(app, secret, nonce, fault) ==
    LET p == persistStage(app.stage, 1, app.db, secret, nonce, fault) IN
    IF p.err # ""
    THEN [app |-> [app EXCEPT !.db = p.db], err |-> p.err]
    ELSE [app |-> commitStateTransitions(commitTransactionHashes([app EXCEPT !.db = p.db])),
          err |-> ""]

(***************************************************************************)
(* Query and Info.                                                         *)
(***************************************************************************)
getQueryType(path) ==
    IF path = "/height" THEN "height"
    ELSE IF path = "/pubkey" THEN "pubkey"
    ELSE "hash"

getQueryKey(queryType, value) ==
    IF queryType = "height" THEN prefixKeyWith(value, vfsPrefixKeyByHeight)
    ELSE IF queryType = "pubkey" THEN prefixKeyWith(value, vfsPrefixKeyByPubKey)
    ELSE prefixKey(value)

\* the plaintext returned; EmptyBytes is the empty byte string
readTransactionFromDB(app, secret, queryType, value) ==
    LET data == Get(app.db, getQueryKey(queryType, value)) IN
    IF data = Nil THEN EmptyBytes
    ELSE IF queryType # "hash" THEN EmptyBytes
    ELSE LET r == Decrypt(secret, data)
         IN  IF r.err THEN EmptyBytes ELSE r.data

\* Query panics exactly when readTransactionFromDB gets to Decrypt with a
\* stored value shorter than the nonce
QueryPanics(app, req) ==
    LET data == Get(app.db, getQueryKey(getQueryType(req.Path), req.Data)) IN
    /\ data # Nil
    /\ getQueryType(req.Path) = "hash"
    /\ DecryptPanics(data)

\* mutant: the response carries the prefixed database key and no height
QueryPrefixedKey(app, secret, req) ==
    [Code |-> CodeTypeOK,
     panic |-> QueryPanics(app, req),
     Key |-> getQueryKey(getQueryType(req.Path), req.Data),
     Height |-> 0,
     Value |-> readTransactionFromDB(app, secret, getQueryType(req.Path), req.Data),
     Log |-> "exists"]

Query(app, secret, req) ==
    [Code |-> CodeTypeOK,
     panic |-> QueryPanics(app, req),
     Key |-> req.Data,
     Height |-> app.state.Height,
     Value |-> readTransactionFromDB(app, secret, getQueryType(req.Path), req.Data),
     Log |-> "exists"]

InitChain(app) == [AppHash |-> Hash(app.state)]

Info(app) ==
    [Data |-> app.state,
     LastBlockHeight |-> app.state.Height,
     LastBlockAppHash |-> Hash(app.state)]

(***************************************************************************)
(* Inputs of the consensus caller.                                         *)
(***************************************************************************)
SignedTx(signer, body, secs, nanos) ==
    Wire(signer, Sign(signer, body), <<>>, [secs |-> secs, nanos |-> nanos],
         Len(body), body)

TxUniverse ==
    { SignedTx(1, <<1>>, 1, 0),
      SignedTx(1, <<1>>, 1, 5),                               \* same second, other bytes
      SignedTx(1, <<2>>, 1, 0),
      SignedTx(2, <<1>>, 1, 0),
      [SignedTx(2, <<1>>, 2, 0) EXCEPT !.Len = 0],            \* len 0 with a body
      [SignedTx(2, <<1>>, 2, 0) EXCEPT !.Len = 0, !.Signature = AppendByte(@)],
      [SignedTx(2, <<2>>, 1, 0) EXCEPT !.Len = 5],            \* len differs from the body
      [SignedTx(1, <<2>>, 2, 0) EXCEPT !.Signature = AppendByte(@)],
      [SignedTx(1, <<>>, 1, 0) EXCEPT !.Signature = Sign(1, <<1>>)],   \* empty body
      [SignedTx(1, <<1>>, 2, 0) EXCEPT !.Hash = <<Lit("height:"), <<"dec", 2>> >>],
      EmptyBytes,
      Malformed }

\* the byte strings delivered in blocks: two valid transactions of two signers,
\* one that CheckTx would reject, one carrying a caller-chosen hash, one that
\* does not parse
BlockTxs ==
    { SignedTx(1, <<1>>, 1, 0),
      SignedTx(2, <<1>>, 1, 0),
      [SignedTx(2, <<2>>, 1, 0) EXCEPT !.Len = 5, !.Signature = AppendByte(@)],
      [SignedTx(1, <<1>>, 2, 0) EXCEPT !.Hash = <<Lit("height:"), <<"dec", 2>> >>],
      Malformed }

Blocks == UNION { [1..n -> BlockTxs] : n \in 0..MaxBlockLen }

Range(f) == { f[i] : i \in DOMAIN f }

Heights == 1..MaxHeight

\* the byte strings of proposals: two valid transactions, one with an empty
\* body, one whose signature has a byte appended, one that does not parse
ProposalTxs ==
    { SignedTx(1, <<1>>, 1, 0),
      SignedTx(2, <<1>>, 1, 0),
      [SignedTx(1, <<>>, 1, 0) EXCEPT !.Signature = Sign(1, <<1>>)],
      [SignedTx(1, <<2>>, 2, 0) EXCEPT !.Signature = AppendByte(@)],
      Malformed }

Proposals == UNION { [1..n -> ProposalTxs] : n \in 0..MaxProposalLen }

\* proposals no longer than a block
ShortProposals == { txs \in Proposals : Len(txs) <= MaxBlockLen }

Faults == {NoFault} \cup
          { [at |-> k, kind |-> kd] : k \in 1..MaxBlockLen, kd \in {"has", "enc", "set"} }

TxHashes == { NewSignedTransactionFromBytes(t).stx.Hash : t \in TxUniverse \ {Malformed} }

QueryRequests ==
    { [Path |-> "/hash", Data |-> d] : d \in TxHashes }
    \cup { [Path |-> "/height", Data |-> FormatInt(h)] : h \in Heights }
    \cup { [Path |-> "/pubkey", Data |-> SignerBytes(s)] : s \in {1, 2} }

\* the hashes FinalizeBlock has returned for the byte strings delivered so far
SeenHashes ==
    { NewSignedTransactionFromBytes(t).stx.Hash : t \in hist.seen \ {Malformed} }

\* identity secrets and nonces of the two replicas
Secret == "secret-a"
Nonce == "nonce-a"
PeerSecret == "secret-b"
PeerNonce == "nonce-b"

(***************************************************************************)
(* The state machine.                                                      *)
(***************************************************************************)
NoResp ==
    [op |-> "none", Code |-> CodeTypeOK, err |-> "", TxResults |-> <<>>,
     AppHash |-> <<>>, Key |-> <<>>, Value |-> EmptyBytes, Height |-> 0,
     Data |-> ZeroState, Tx |-> EmptyBytes, Path |-> "",
     Req |-> <<>>, Txs |-> <<>>, Status |-> ""]

App == [state |-> state, stage |-> stage, db |-> db]

\* no Commit call is in progress
NotRunning == [pc |-> "idle", k |-> 0, ctx |-> "live"]

NoHist ==
    [preFin |-> [state |-> ZeroState, db |-> EmptyDB, committed |-> {}],
     req |-> <<>>,
     reqHeight |-> 0,
     seen |-> {},
     delivered |-> 0,
     committed |-> {},
     stored |-> {},
     chain |-> [k \in {} |-> <<>>],
     savedChain |-> [k \in {} |-> <<>>],
     finHash |-> <<>>,
     commitPre |-> EmptyDB]

\* the identity files on disk (none yet); key and pw record the private key
\* and the password of the last identity generated
NoVault == [files |-> [f \in {} |-> <<>>], key |-> <<>>, pw |-> <<>>]

Init ==
    /\ state = loadState(EmptyDB)
    /\ stage = <<>>
    /\ db = EmptyDB
    /\ resp = NoResp
    /\ crashed = FALSE
    /\ peer = NewApp(EmptyDB)
    /\ hist = NoHist
    /\ running = NotRunning
    /\ vault = NoVault

DoCheckTx(tx) ==
    /\ ~crashed
    /\ LET r == CheckTx(tx)
       IN  resp' = [NoResp EXCEPT !.op = "CheckTx", !.Code = r.Code, !.err = r.err,
                                  !.Tx = tx]
    /\ UNCHANGED <<state, stage, db, crashed, peer, hist, running, vault>>

\* history: the hashes of the transactions delivered to the completed
\* FinalizeBlock calls, per signer, in the order delivered
RECURSIVE extendChain(_, _, _)
extendChain(chain, txs, i) ==
    IF i > Len(txs) THEN chain
    ELSE LET p == NewSignedTransactionFromBytes(txs[i]).stx
             old == IF p.Signer \in DOMAIN chain THEN chain[p.Signer] ELSE <<>>
         IN  extendChain([k \in DOMAIN chain \cup {p.Signer} |->
                              IF k = p.Signer THEN Append(old, p.Hash) ELSE chain[k]],
                         txs, i + 1)

DoFinalizeBlock(height, txs) ==
    /\ ~crashed
    /\ hist.delivered + Len(txs) <= MaxTxs
    /\ Cardinality(hist.seen \cup Range(txs)) <= MaxDistinctTxs
    /\ LET req == [Height |-> height, Txs |-> txs]
           r == FinalizeBlock(App, req)
           q == FinalizeBlock(peer, req)
       IN  /\ state' = r.app.state
           /\ stage' = r.app.stage
           /\ db' = r.app.db
           /\ peer' = q.app
           /\ crashed' = r.panic
           /\ resp' = [NoResp EXCEPT !.op = "FinalizeBlock",
                                     !.err = IF r.panic THEN "panic" ELSE "",
                                     !.TxResults = r.TxResults,
                                     !.AppHash = r.AppHash]
           /\ hist' = [hist EXCEPT !.preFin = [state |-> state, db |-> db,
                                               committed |-> hist.committed],
                                   !.req = txs,
                                   !.reqHeight = height,
                                   !.seen = @ \cup Range(txs),
                                   !.delivered = @ + Len(txs),
                                   !.chain = IF r.panic THEN @
                                             ELSE extendChain(@, txs, 1),
                                   !.finHash = IF r.panic THEN @ ELSE r.AppHash]
    /\ UNCHANGED <<running, vault>>

DoCommit(fault) ==
    /\ ~crashed
    /\ fault.at <= Len(stage)
    /\ LET r == Commit(App, Secret, Nonce, fault)
           q == Commit(peer, PeerSecret, PeerNonce, fault)
           written == { k \in 1..Len(stage) :
                          prefixKey(stage[k].Hash) \in DOMAIN r.app.db \ DOMAIN db }
       IN  /\ state' = r.app.state
           /\ stage' = r.app.stage
           /\ db' = r.app.db
           /\ peer' = q.app
           /\ resp' = [NoResp EXCEPT !.op = "Commit", !.err = r.err]
           /\ hist' = [hist EXCEPT
                         !.committed = IF r.err = ""
                                       THEN @ \cup { hist.req[i] : i \in 1..Len(hist.req) }
                                       ELSE @,
                         !.stored = @ \cup { [Hash |-> stage[k].Hash,
                                              Signer |-> stage[k].Signer,
                                              Height |-> state.Height] : k \in written },
                         !.savedChain = IF r.err = "" THEN hist.chain ELSE @]
    /\ UNCHANGED <<crashed, running, vault>>

DoQuery(req) ==
    /\ ~crashed
    /\ LET r == Query(App, Secret, req)
       IN  resp' = [NoResp EXCEPT !.op = "Query", !.Code = r.Code, !.Key = r.Key,
                                  !.err = IF r.panic THEN "panic" ELSE "",
                                  !.Path = req.Path, !.Req = req.Data,
                                  !.Value = r.Value, !.Height = r.Height]
    /\ UNCHANGED <<state, stage, db, crashed, peer, hist, running, vault>>

DoInfo ==
    /\ ~crashed
    /\ LET r == Info(App)
       IN  resp' = [NoResp EXCEPT !.op = "Info", !.Height = r.LastBlockHeight,
                                  !.AppHash = r.LastBlockAppHash, !.Data = r.Data]
    /\ UNCHANGED <<state, stage, db, crashed, peer, hist, running, vault>>

\* InitChain is called by the consensus engine while the last block height is 0
DoInitChain ==
    /\ ~crashed
    /\ state.Height = 0
    /\ resp' = [NoResp EXCEPT !.op = "InitChain", !.AppHash = InitChain(App).AppHash]
    /\ UNCHANGED <<state, stage, db, crashed, peer, hist, running, vault>>

\* after a panic the process is started again over the same database
Restart ==
    /\ crashed
    /\ state' = loadState(db)
    /\ stage' = <<>>
    /\ peer' = NewApp(peer.db)
    /\ crashed' = FALSE
    /\ resp' = [NoResp EXCEPT !.op = "Restart"]
    /\ hist' = [hist EXCEPT !.req = <<>>, !.chain = hist.savedChain, !.finHash = <<>>]
    /\ UNCHANGED <<db, running, vault>>

Next ==
    \/ \E height \in Heights, txs \in Blocks : DoFinalizeBlock(height, txs)
    \/ \E fault \in Faults : DoCommit(fault)
    \/ \E req \in QueryRequests :
          /\ req.Path = "/hash"
          /\ req.Data \in SeenHashes
          /\ DoQuery(req)
    \/ DoInfo
    \/ DoInitChain
    \/ Restart

Spec == Init /\ [][Next]_vars

\* CheckTx on any byte string, in the states reached by blocks of one transaction
NextCheckTx ==
    \/ \E tx \in TxUniverse : DoCheckTx(tx)
    \/ \E height \in Heights, txs \in Blocks :
          /\ Len(txs) = 1
          /\ DoFinalizeBlock(height, txs)
    \/ DoCommit(NoFault)
    \/ Restart

SpecCheckTx == Init /\ [][NextCheckTx]_vars

(***************************************************************************)
(* Commit executed one database write at a time.  The consensus connection *)
(* is inside Commit from CommitBegin until the step that returns; Query    *)
(* and Info arrive on the query connection in between.  The application    *)
(* takes no lock and reads the database without a snapshot.                *)
(***************************************************************************)
\* the position after the records (pc = "persist") or the index rows of
\* entry k are written
AfterEntry(pc, k) ==
    IF k < Len(stage) THEN [running EXCEPT !.pc = pc, !.k = k + 1]
    ELSE IF pc = "persist" /\ Len(stage) > 0
         THEN [running EXCEPT !.pc = "byHeight", !.k = 1]
    ELSE [running EXCEPT !.pc = "save", !.k = 0]

\* the secret is read; the loop over the stage is entered
CommitBegin ==
    /\ ~crashed
    /\ running.pc = "idle"
    /\ running' = IF Len(stage) > 0 THEN [pc |-> "persist", k |-> 1, ctx |-> "live"]
                  ELSE [pc |-> "save", k |-> 0, ctx |-> "live"]
    /\ hist' = [hist EXCEPT !.commitPre = db]
    /\ UNCHANGED <<state, stage, db, resp, crashed, peer, vault>>

\* Commit is called with a context that is already cancelled.  The context
\* parameter of Commit is unnamed: the call proceeds as CommitBegin does.
CommitBeginCancelled ==
    /\ ~crashed
    /\ running.pc = "idle"
    /\ running' = IF Len(stage) > 0 THEN [pc |-> "persist", k |-> 1, ctx |-> "cancelled"]
                  ELSE [pc |-> "save", k |-> 0, ctx |-> "cancelled"]
    /\ hist' = [hist EXCEPT !.commitPre = db]
    /\ UNCHANGED <<state, stage, db, resp, crashed, peer, vault>>

\* the consensus engine cancels the context of the running Commit
Cancel ==
    /\ running.pc # "idle"
    /\ running.ctx = "live"
    /\ running' = [running EXCEPT !.ctx = "cancelled"]
    /\ UNCHANGED <<state, stage, db, resp, crashed, peer, hist, vault>>

\* the history of a Commit that returns r for this replica
CommitHistory(r) ==
    LET written == { k \in 1..Len(stage) :
                       prefixKey(stage[k].Hash) \in DOMAIN r.app.db \ DOMAIN hist.commitPre }
    IN  [hist EXCEPT
           !.committed = IF r.err = ""
                         THEN @ \cup { hist.req[i] : i \in 1..Len(hist.req) }
                         ELSE @,
           !.stored = @ \cup { [Hash |-> stage[k].Hash,
                                Signer |-> stage[k].Signer,
                                Height |-> state.Height] : k \in written },
           !.savedChain = IF r.err = "" THEN hist.chain ELSE @]

\* one iteration of the loop that persists the staged data
CommitPersist ==
    /\ running.pc = "persist"
    /\ LET k == running.k
           p == persistStage(SubSeq(stage, 1, k), k, db, Secret, Nonce, NoFault)
       IN  IF p.err # ""
           THEN /\ running' = NotRunning
                /\ resp' = [NoResp EXCEPT !.op = "Commit", !.err = p.err]
                /\ peer' = Commit(peer, PeerSecret, PeerNonce, NoFault).app
                /\ hist' = CommitHistory([app |-> App, err |-> p.err])
                /\ UNCHANGED <<state, stage, db, crashed, vault>>
           ELSE /\ db' = p.db
                /\ running' = AfterEntry("persist", k)
                /\ UNCHANGED <<state, stage, resp, crashed, peer, hist, vault>>

\* commitTransactionHashes: the by-height row of entry k
CommitByHeight ==
    /\ running.pc = "byHeight"
    /\ db' = addTransactionByHeight(db, state.Height, stage[running.k])
    /\ running' = [running EXCEPT !.pc = "byPubKey"]
    /\ UNCHANGED <<state, stage, resp, crashed, peer, hist, vault>>

\* commitTransactionHashes: the by-signer row of entry k
CommitByPubKey ==
    /\ running.pc = "byPubKey"
    /\ db' = addTransactionByPubKey(db, stage[running.k])
    /\ running' = AfterEntry("byHeight", running.k)
    /\ UNCHANGED <<state, stage, resp, crashed, peer, hist, vault>>

\* commitStateTransitions, then Commit returns
CommitSave ==
    /\ running.pc = "save"
    /\ LET a == commitStateTransitions(App)
       IN  /\ db' = a.db
           /\ stage' = a.stage
           /\ resp' = [NoResp EXCEPT !.op = "Commit"]
           /\ peer' = Commit(peer, PeerSecret, PeerNonce, NoFault).app
           /\ hist' = CommitHistory([app |-> a, err |-> ""])
    /\ running' = NotRunning
    /\ UNCHANGED <<state, crashed, vault>>

\* the blocks of transactions as clients build them: no hash field, and
\* accepted by ProcessProposal
CanonicalBlocks ==
    { txs \in Blocks :
        /\ ProcessProposal(txs) = "ACCEPT"
        /\ \A i \in DOMAIN txs : txs[i].Hash = <<>> }

NextConcurrent ==
    \/ \E height \in Heights, txs \in CanonicalBlocks :
          /\ running.pc = "idle"
          /\ DoFinalizeBlock(height, txs)
    \/ CommitBegin
    \/ CommitPersist
    \/ CommitByHeight
    \/ CommitByPubKey
    \/ CommitSave
    \/ \E req \in QueryRequests :
          /\ req.Path = "/hash"
          /\ req.Data \in SeenHashes
          /\ DoQuery(req)
    \/ DoInfo

SpecConcurrent == Init /\ [][NextConcurrent]_vars

\* Commit calls whose context is or becomes cancelled
NextCancel ==
    \/ \E height \in Heights, txs \in CanonicalBlocks :
          /\ running.pc = "idle"
          /\ DoFinalizeBlock(height, txs)
    \/ CommitBegin
    \/ CommitBeginCancelled
    \/ Cancel
    \/ CommitPersist
    \/ CommitByHeight
    \/ CommitByPubKey
    \/ CommitSave

SpecCancel == Init /\ [][NextCancel]_vars

\* queries of every kind, in every state of the lifecycle
NextQuery ==
    \/ \E height \in Heights, txs \in CanonicalBlocks : DoFinalizeBlock(height, txs)
    \/ \E fault \in Faults : DoCommit(fault)
    \/ \E req \in QueryRequests : DoQuery(req)
    \/ DoInfo

SpecQuery == Init /\ [][NextQuery]_vars

\* a correctly signed transaction whose hash field carries one byte
ShortHash == << <<"b", 1>> >>
ShortHashTx == [SignedTx(2, <<2>>, 1, 0) EXCEPT !.Hash = ShortHash]

\* blocks of a client-built transaction and of the one-byte-hash transaction
ShortHashBlocks ==
    UNION { [1..n -> {SignedTx(1, <<1>>, 1, 0), ShortHashTx}] : n \in 1..MaxBlockLen }

\* Query requests for a transaction: the default path under its three
\* spellings, with a digest, the one-byte hash, bytes that spell an index key,
\* and no bytes at all
HashRequests ==
    { [Path |-> path, Data |-> d] :
        path \in {"/hash", "", "/tx"},
        d \in { NewSignedTransactionFromBytes(SignedTx(1, <<1>>, 1, 0)).stx.Hash,
                NewSignedTransactionFromBytes(SignedTx(2, <<1>>, 1, 0)).stx.Hash,
                ShortHash,
                <<Lit("height:")>> \o FormatInt(1),
                <<Lit("height:")>> \o FormatInt(2),
                <<Lit("pubkey:")>> \o SignerBytes(1),
                <<Lit("pubkey:")>> \o SignerBytes(2),
                <<>> } }

\* queries by hash in every state of the lifecycle, for stored and absent hashes
NextHashQuery ==
    \/ \E height \in Heights, txs \in ShortHashBlocks : DoFinalizeBlock(height, txs)
    \/ \E fault \in Faults : DoCommit(fault)
    \/ \E req \in HashRequests : DoQuery(req)

SpecHashQuery == Init /\ [][NextHashQuery]_vars

DoPrepareProposal(txs) ==
    /\ ~crashed
    /\ resp' = [NoResp EXCEPT !.op = "PrepareProposal", !.Req = txs,
                              !.Txs = PrepareProposal(txs)]
    /\ UNCHANGED <<state, stage, db, crashed, peer, hist, running, vault>>

DoProcessProposal(txs) ==
    /\ ~crashed
    /\ resp' = [NoResp EXCEPT !.op = "ProcessProposal", !.Req = txs,
                              !.Status = ProcessProposal(txs)]
    /\ UNCHANGED <<state, stage, db, crashed, peer, hist, running, vault>>

\* the proposer and the validators: proposals of any byte strings
NextProposal ==
    \/ \E txs \in Proposals : DoPrepareProposal(txs)
    \/ \E txs \in Proposals : DoProcessProposal(txs)

SpecProposal == Init /\ [][NextProposal]_vars

\* validation calls before and after blocks are finalized and committed
NextStateless ==
    \/ \E tx \in TxUniverse : DoCheckTx(tx)
    \/ \E txs \in ShortProposals : DoPrepareProposal(txs)
    \/ \E txs \in ShortProposals : DoProcessProposal(txs)
    \/ \E height \in Heights, txs \in CanonicalBlocks :
          /\ Len(txs) = 1
          /\ DoFinalizeBlock(height, txs)
    \/ DoCommit(NoFault)

SpecStateless == Init /\ [][NextStateless]_vars

\* the signed transactions a client builds and encodes: of two signers, with
\* and without a sub-second part of the time, with the hash empty, derived or
\* chosen, with a good and a bad signature, with Size the body length or 0
CodecTxs ==
    { [Signer |-> signer, Hash |-> hash, Signature |-> sig, Size |-> size,
       Time |-> [secs |-> secs, nanos |-> nanos], Data |-> body] :
          signer \in {1, 2}, body \in {<<1>>, <<2>>, <<1, 2>>},
          secs \in 1..MaxSecs, nanos \in 0..MaxNanos,
          hash \in {<<>>, <<Lit("digest")>>, <<Lit("height:"), <<"dec", 2>> >>},
          sig \in {Sign(1, <<1>>), Sign(2, <<1, 2>>), AppendByte(Sign(1, <<1>>))},
          size \in {0, 1, 2} }

\* stx.Bytes() followed by FromBytes, as the client and the tests do; the
\* hash "digest" of CodecTxs stands for the digest of the transaction itself
DoCodec(T) ==
    /\ ~crashed
    /\ LET stx == IF T.Hash = <<Lit("digest")>> THEN [T EXCEPT !.Hash = ComputeHash(T)]
                  ELSE T
           bz == Bytes(stx)
           r == FromBytes(bz)
       IN  resp' = [NoResp EXCEPT !.op = "Codec", !.Txs = <<stx, r.stx>>, !.Value = bz,
                                  !.err = IF r.err THEN "decode" ELSE ""]
    /\ UNCHANGED <<state, stage, db, crashed, peer, hist, running, vault>>

NextCodec == \E T \in CodecTxs : DoCodec(T)

\* ToProto of vfs/tx.go: the hash field is copied as it is, and the unix
\* seconds of the time are given to time.Unix as its nanoseconds argument
TxGoToProto(p) ==
    Wire(p.Signer, p.Signature, p.Hash,
         [secs |-> p.Time.secs \div 1000000000, nanos |-> p.Time.secs % 1000000000],
         Len(p.Data), p.Data)

\* stx.Bytes() of vfs/tx.go followed by FromBytes
DoCodecTxGo(T) ==
    /\ ~crashed
    /\ LET stx == IF T.Hash = <<Lit("digest")>> THEN [T EXCEPT !.Hash = ComputeHash(T)]
                  ELSE T
           bz == TxGoToProto(stx)
           r == FromBytes(bz)
       IN  resp' = [NoResp EXCEPT !.op = "CodecTxGo", !.Txs = <<stx, r.stx>>, !.Value = bz,
                                  !.err = IF r.err THEN "decode" ELSE ""]
    /\ UNCHANGED <<state, stage, db, crashed, peer, hist, running, vault>>

\* the two encoders of the repository
NextHash ==
    \/ \E T \in CodecTxs : DoCodec(T)
    \/ \E T \in CodecTxs : DoCodecTxGo(T)

SpecHash == Init /\ [][NextHash]_vars

(***************************************************************************)
(* The identity vault and its helpers, as the command line and the tests   *)
(* call them.                                                              *)
(***************************************************************************)
Passwords == {<<>>, <<1>>, <<2>>}
Salts == {<<1, 1, 1, 1, 1, 1, 1, 1>>, <<2, 2, 2, 2, 2, 2, 2, 2>>}
GivenSalts == Salts \cup {<<>>, <<1, 1, 1, 1, 1, 1, 1>>, <<1, 1, 1, 1, 1, 1, 1, 1, 1>>}
PrivKeys == {<<"priv", 1>>, <<"priv", 2>>}
Nonces == {"nonce-a", "nonce-b"}
Plaintexts == {<<>>, <<7>>}
\* two digests, a 16-byte key, and keys of sizes AES does not accept
Secrets ==
    {tmhashSum(<<1>>), tmhashSum(<<2>>), <<"key", 16, 1>>, <<"key", 31, 1>>, <<"key", 2, 1>>}
IdFile == "id"

DoGenerateIdentity(pw, priv, random, nonce) ==
    /\ LET r == MustGenerateIdentity(vault.files, IdFile, pw, priv, random, nonce)
       IN  /\ vault' = IF r.panic THEN vault
                       ELSE [files |-> r.fs, key |-> priv, pw |-> pw]
           /\ resp' = [NoResp EXCEPT !.op = "GenerateIdentity", !.Req = pw,
                                     !.err = IF r.panic THEN "panic" ELSE ""]
    /\ UNCHANGED <<state, stage, db, crashed, peer, hist, running>>

DoOpen(pw) ==
    /\ LET r == Open(vault.files, [Path |-> IdFile, pw |-> pw])
       IN  resp' = [NoResp EXCEPT !.op = "Open", !.Req = pw, !.Value = r.out, !.err = r.err]
    /\ UNCHANGED <<state, stage, db, crashed, peer, hist, running, vault>>

DoPubKey(pw) ==
    /\ LET r == PubKey(vault.files, [Path |-> IdFile, pw |-> pw])
       IN  resp' = [NoResp EXCEPT !.op = "PubKey", !.Req = pw, !.Value = r.out, !.err = r.err]
    /\ UNCHANGED <<state, stage, db, crashed, peer, hist, running, vault>>

DoEncrypt(secret, nonce, data) ==
    /\ LET r == EncryptWithError(secret, nonce, data)
       IN  resp' = [NoResp EXCEPT !.op = "Encrypt", !.Req = <<secret, data>>, !.Value = r.out,
                                  !.err = IF r.err THEN "encrypt" ELSE ""]
    /\ UNCHANGED <<state, stage, db, crashed, peer, hist, running, vault>>

\* Decrypt of the ciphertext the last Encrypt returned
DoDecrypt(secret) ==
    /\ resp.op = "Encrypt"
    /\ resp.err = ""
    /\ LET r == DecryptWithError(secret, resp.Value)
       IN  resp' = [NoResp EXCEPT !.op = "Decrypt", !.Req = resp.Req \o <<secret>>,
                                  !.Value = r.out,
                                  !.err = IF r.err THEN "decrypt" ELSE ""]
    /\ UNCHANGED <<state, stage, db, crashed, peer, hist, running, vault>>

DoGenerateSecret(pw, salt, random) ==
    /\ LET r == GenerateSecret(pw, salt, random)
       IN  resp' = [NoResp EXCEPT !.op = "GenerateSecret", !.Req = <<pw, salt>>,
                                  !.Value = [secret |-> r.secret, salt |-> r.salt],
                                  !.err = IF r.err THEN "error" ELSE ""]
    /\ UNCHANGED <<state, stage, db, crashed, peer, hist, running, vault>>

NextVault ==
    \/ \E pw \in Passwords, priv \in PrivKeys, random \in Salts, nonce \in Nonces :
          DoGenerateIdentity(pw, priv, random, nonce)
    \/ \E pw \in Passwords : DoOpen(pw)
    \/ \E pw \in Passwords : DoPubKey(pw)
    \/ \E secret \in Secrets, nonce \in Nonces, data \in Plaintexts :
          DoEncrypt(secret, nonce, data)
    \/ \E secret \in Secrets : DoDecrypt(secret)
    \/ \E pw \in Passwords, salt \in GivenSalts, random \in Salts :
          DoGenerateSecret(pw, salt, random)

SpecVault == Init /\ [][NextVault]_vars

SpecCodec == Init /\ [][NextCodec]_vars

(***************************************************************************)
(* Properties.                                                             *)
(***************************************************************************)
ResultHash(tx) == NewSignedTransactionFromBytes(tx).stx.Hash

\* the signed-transaction invariants of the data model: len is the body
\* length, the body is not empty, the signature verifies, and the hash field
\* is empty or the digest of (signer, body, time)
ValidTx(tx) ==
    /\ tx.ok
    /\ tx.Len = Len(tx.Body)
    /\ Len(tx.Body) > 0
    /\ VerifySignature(tx.Signer, tx.Body, tx.Signature)
    /\ tx.Hash \in {<<>>, ComputeHash(FromProto(tx).stx)}

\* C1: once a transaction has been finalized and committed, finalizing and
\* committing the same bytes again makes the second Commit fail, and the second
\* attempt leaves the state and the database as they were before it.
C1_NoDuplicateCommit ==
    (/\ resp.op = "Commit"
     /\ \E i \in DOMAIN hist.req : hist.req[i] \in hist.preFin.committed)
    => /\ resp.err # ""
       /\ state = hist.preFin.state
       /\ db = hist.preFin.db

\* C2: a Commit that returns an error leaves the database exactly as it was
\* before the call.
C2_NoPartialStateOnFailedCommit ==
    [][(resp'.op = "Commit" /\ resp'.err # "") => db' = db]_vars

\* C3: querying /hash with the hash FinalizeBlock returned for a valid,
\* successfully committed transaction T returns code 0 and a non-empty value
\* that decodes to a transaction with T's hash, signature, signer, body and len.
C3_CommitQueryRoundTrip ==
    \A tx \in hist.committed :
        (/\ ValidTx(tx)
         /\ validateTx(tx) = CodeTypeOK
         /\ resp.op = "Query"
         /\ resp.Path = "/hash"
         /\ resp.Key = ResultHash(tx))
        => /\ resp.Code = CodeTypeOK
           /\ resp.Value # EmptyBytes
           /\ resp.Value.ok
           /\ resp.Value.Hash = ResultHash(tx)
           /\ resp.Value.Signature = tx.Signature
           /\ resp.Value.Signer = tx.Signer
           /\ resp.Value.Body = tx.Body
           /\ resp.Value.Len = tx.Len

C3_Witness ==
    \E tx \in hist.committed :
        /\ ValidTx(tx)
        /\ resp.op = "Query"
        /\ resp.Key = ResultHash(tx)
        /\ resp.Value.Body = tx.Body
        /\ resp.Value.Signature = tx.Signature

\* C4 as stated: for a decodable transaction CheckTx returns OK iff the
\* signature verifies over the body and the body is not empty.
C4_SignatureContractAsStated ==
    (resp.op = "CheckTx" /\ resp.Tx.ok)
    => (resp.Code = CodeTypeOK
        <=> /\ VerifySignature(resp.Tx.Signer, resp.Tx.Body, resp.Tx.Signature)
            /\ Len(resp.Tx.Body) > 0)

\* C4 amended: for a decodable transaction CheckTx returns OK iff the
\* signature verifies over the body, the body is not empty and the len field
\* is not 0.
C4_SignatureContract ==
    (resp.op = "CheckTx" /\ resp.Tx.ok)
    => (resp.Code = CodeTypeOK
        <=> /\ VerifySignature(resp.Tx.Signer, resp.Tx.Body, resp.Tx.Signature)
            /\ Len(resp.Tx.Body) > 0
            /\ resp.Tx.Len # 0)

C4_Witness ==
    /\ resp.op = "CheckTx"
    /\ resp.Tx.ok
    /\ resp.Code = CodeTypeEmptyDataError
    /\ Len(resp.Tx.Body) > 0
    /\ VerifySignature(resp.Tx.Signer, resp.Tx.Body, resp.Tx.Signature)

\* C5: two replicas given the same FinalizeBlock/Commit calls hold the same
\* height, num_transactions and merkle_roots, the same app-hash and the same
\* persisted vfsState, whatever their secrets and nonces.
C5_Determinism ==
    /\ peer.state = state
    /\ Hash(peer.state) = Hash(state)
    /\ Get(peer.db, stateKey) = Get(db, stateKey)

C5_Witness ==
    /\ Get(db, stateKey) # Nil
    /\ state.NumTransactions > 0
    /\ DOMAIN state.MerkleRoots # {}
    /\ DOMAIN db = DOMAIN peer.db
    /\ db # peer.db

\* the fold of the data model over the hashes of one signer
RECURSIVE FoldOf(_)
FoldOf(hashes) ==
    IF Len(hashes) = 1 THEN HashFromByteSlices(<<hashes[1]>>)
    ELSE HashFromByteSlices(<<FoldOf(SubSeq(hashes, 1, Len(hashes) - 1)),
                              hashes[Len(hashes)]>>)

\* C6: merkle_roots[pk] is the fold, one transaction at a time and in the order
\* delivered, of the hashes of pk's transactions; pk is present iff it has one.
C6_PerSignerMerkleFold ==
    /\ DOMAIN state.MerkleRoots = DOMAIN hist.chain
    /\ \A pk \in DOMAIN hist.chain : state.MerkleRoots[pk] = FoldOf(hist.chain[pk])

C6_Witness ==
    \E pk \in DOMAIN hist.chain :
        /\ Len(hist.chain[pk]) = 3
        /\ hist.chain[pk][1] # hist.chain[pk][2]
        /\ state.Height = 2
        /\ state.MerkleRoots[pk] =
               HashFromByteSlices(<<HashFromByteSlices(<<HashFromByteSlices(
                   <<hist.chain[pk][1]>>), hist.chain[pk][2]>>), hist.chain[pk][3]>>)

\* the roots of the signers in increasing order of their keys
RootsInKeyOrder(roots) ==
    LET n == Cardinality(DOMAIN roots)
        keys == CHOOSE q \in [1..n -> DOMAIN roots] :
                    \A i, j \in 1..n : i < j => q[i] < q[j]
    IN  [i \in 1..n |-> roots[keys[i]]]

\* C7: the app-hash FinalizeBlock, Info and InitChain return is the Merkle
\* root of the merkle_roots values in the order of their keys, and the one
\* FinalizeBlock returned is the one Info reports until the next FinalizeBlock,
\* before and after Commit.
C7_AppHashDefinition ==
    /\ (resp.op \in {"Info", "InitChain"} \/ (resp.op = "FinalizeBlock" /\ resp.err = ""))
       => resp.AppHash = HashFromByteSlices(RootsInKeyOrder(state.MerkleRoots))
    /\ (hist.finHash # <<>> /\ ~crashed) => Info(App).LastBlockAppHash = hist.finHash
    /\ (hist.finHash # <<>> /\ resp.op = "Info") => resp.AppHash = hist.finHash

C7_Witness ==
    /\ resp.op = "Info"
    /\ Cardinality(DOMAIN state.MerkleRoots) = 2
    /\ stage = <<>>
    /\ Get(db, stateKey) # Nil
    /\ resp.AppHash = hist.finHash
    /\ resp.AppHash = HashFromByteSlices(<<state.MerkleRoots[1], state.MerkleRoots[2]>>)

IndexRow(d, key) == IF Has(d, key) THEN UnmarshalHashes(Get(d, key)) ELSE <<>>

\* C8: every transaction a Commit has stored under its hash is listed in
\* by_height of the height it was finalized at and in by_signer of its signer.
C8_IndexCompleteness ==
    \A t \in hist.stored :
        /\ t.Hash \in Range(IndexRow(db, prefixKeyWith(FormatInt(t.Height), vfsPrefixKeyByHeight)))
        /\ t.Hash \in Range(IndexRow(db, prefixKeyWith(SignerBytes(t.Signer), vfsPrefixKeyByPubKey)))

\* C9: FinalizeBlock of a block with an entry that does not decode completes:
\* that entry gets code invalid-format with an empty hash and is not staged or
\* counted, every other entry is staged and gets an OK result.
C9_DecodeFailuresReported ==
    (resp.op = "FinalizeBlock" /\ \E i \in DOMAIN hist.req : ~hist.req[i].ok)
    => /\ resp.err = ""
       /\ ~crashed
       /\ Len(resp.TxResults) = Len(hist.req)
       /\ \A i \in DOMAIN resp.TxResults :
              resp.TxResults[i] =
                  IF hist.req[i].ok THEN ExecTxResult(CodeTypeOK, ResultHash(hist.req[i]))
                  ELSE ExecTxResult(CodeTypeInvalidFormatError, <<>>)
       /\ Len(stage) = Cardinality({i \in DOMAIN hist.req : hist.req[i].ok})
       /\ state.NumTransactions = hist.preFin.state.NumTransactions + Len(stage)

\* a 32-byte transaction digest
IsTxDigest(h) == Len(h) = 1 /\ h[1][1] = "tx"

\* C10: FinalizeBlock returns one result per input transaction, in input
\* order; an OK result carries the 32-byte hash of its transaction; afterwards
\* the stage holds exactly the transactions with OK results, in that order.
C10_OneResultPerTx ==
    resp.op = "FinalizeBlock"
    => /\ Len(resp.TxResults) = Len(hist.req)
       /\ \A i \in DOMAIN resp.TxResults :
              resp.TxResults[i].Code = CodeTypeOK
              => /\ resp.TxResults[i].Data = ResultHash(hist.req[i])
                 /\ IsTxDigest(resp.TxResults[i].Data)
       /\ LET ok == { i \in DOMAIN resp.TxResults : resp.TxResults[i].Code = CodeTypeOK }
          IN  /\ Len(stage) = Cardinality(ok)
              /\ \A k \in DOMAIN stage :
                     \E i \in ok : /\ Cardinality({j \in ok : j <= i}) = k
                                   /\ stage[k] = NewSignedTransactionFromBytes(hist.req[i]).stx

\* the entries of txs at the positions in pos, in increasing order of position
RECURSIVE SubsequenceAt(_, _, _)
SubsequenceAt(txs, pos, i) ==
    IF i > Len(txs) THEN <<>>
    ELSE (IF i \in pos THEN <<txs[i]>> ELSE <<>>) \o SubsequenceAt(txs, pos, i + 1)

\* C11: PrepareProposal returns exactly the entries of its input for which
\* CheckTx returns OK, in their original order and with unchanged bytes.
C11_PrepareProposalFilters ==
    resp.op = "PrepareProposal"
    => resp.Txs = SubsequenceAt(resp.Req,
                      { i \in DOMAIN resp.Req : CheckTx(resp.Req[i]).Code = CodeTypeOK }, 1)

\* a list of four whose second entry has an empty body yields the other three
C11_Witness ==
    /\ resp.op = "PrepareProposal"
    /\ Len(resp.Req) = 4
    /\ resp.Req[2].ok /\ Len(resp.Req[2].Body) = 0
    /\ resp.Req[1] # resp.Req[3]
    /\ resp.Txs = <<resp.Req[1], resp.Req[3], resp.Req[4]>>

\* C12: ProcessProposal returns ACCEPT iff CheckTx returns OK for every entry
\* of the proposal (ACCEPT for the empty list), REJECT otherwise.
C12_ProcessProposalAllOrNothing ==
    resp.op = "ProcessProposal"
    => /\ resp.Status \in {"ACCEPT", "REJECT"}
       /\ resp.Status = "ACCEPT"
              <=> \A i \in DOMAIN resp.Req : CheckTx(resp.Req[i]).Code = CodeTypeOK

C12_Witness ==
    /\ resp.op = "ProcessProposal"
    /\ resp.Status = "REJECT"
    /\ Len(resp.Req) = 3
    /\ CheckTx(resp.Req[1]).Code = CodeTypeOK
    /\ CheckTx(resp.Req[2]).Code = CodeTypeOK
    /\ CheckTx(resp.Req[3]).Code = CodeTypeInvalidSignatureError

\* C13 as stated: CheckTx returns no error and exactly one code: invalid-format
\* when the bytes do not decode, empty-data when they decode to an empty body,
\* invalid-signature when the body is not empty and the signature does not
\* verify.
C13_CheckTxCodesAsStated ==
    resp.op = "CheckTx"
    => /\ resp.err = ""
       /\ resp.Code \in {CodeTypeOK, CodeTypeEmptyDataError,
                         CodeTypeInvalidFormatError, CodeTypeInvalidSignatureError}
       /\ ~resp.Tx.ok => resp.Code = CodeTypeInvalidFormatError
       /\ (resp.Tx.ok /\ Len(resp.Tx.Body) = 0) => resp.Code = CodeTypeEmptyDataError
       /\ (/\ resp.Tx.ok
           /\ Len(resp.Tx.Body) > 0
           /\ ~VerifySignature(resp.Tx.Signer, resp.Tx.Body, resp.Tx.Signature))
          => resp.Code = CodeTypeInvalidSignatureError

\* C13 amended: CheckTx returns no error and exactly one code: invalid-format
\* when the bytes do not decode, empty-data when they decode to an empty body
\* or to a len field of 0, invalid-signature when the body is not empty, the
\* len field is not 0 and the signature does not verify.
C13_CheckTxCodes ==
    resp.op = "CheckTx"
    => /\ resp.err = ""
       /\ resp.Code \in {CodeTypeOK, CodeTypeEmptyDataError,
                         CodeTypeInvalidFormatError, CodeTypeInvalidSignatureError}
       /\ ~resp.Tx.ok => resp.Code = CodeTypeInvalidFormatError
       /\ (resp.Tx.ok /\ (Len(resp.Tx.Body) = 0 \/ resp.Tx.Len = 0))
          => resp.Code = CodeTypeEmptyDataError
       /\ (/\ resp.Tx.ok
           /\ Len(resp.Tx.Body) > 0
           /\ resp.Tx.Len # 0
           /\ ~VerifySignature(resp.Tx.Signer, resp.Tx.Body, resp.Tx.Signature))
          => resp.Code = CodeTypeInvalidSignatureError

C13_Witness ==
    /\ resp.op = "CheckTx"
    /\ resp.Tx.ok
    /\ Len(resp.Tx.Body) > 0
    /\ resp.Tx.Len = 0
    /\ ~VerifySignature(resp.Tx.Signer, resp.Tx.Body, resp.Tx.Signature)
    /\ resp.Code = CodeTypeEmptyDataError

\* the transaction sealed in a stored record
Unsealed(value) == FromProto(Decrypt(Secret, value).data).stx

\* the keys of the database that hold a sealed transaction record
TxKeys(d) == { key \in DOMAIN d : d[key][1] = "sealed" }

\* C14: a successful Commit stores every staged transaction under its hash,
\* saves the in-memory state under vfsState, empties the stage and does not
\* change height, num_transactions or merkle_roots.
C14_CommitReturnsToIdle ==
    [][(resp'.op = "Commit" /\ resp'.err = "")
       => /\ \A k \in DOMAIN stage :
                 /\ Has(db', prefixKey(stage[k].Hash))
                 /\ Decrypt(Secret, Get(db', prefixKey(stage[k].Hash)))
                        = [err |-> FALSE, data |-> Bytes(stage[k])]
          /\ Get(db', stateKey) = MarshalState(state')
          /\ stage' = <<>>
          /\ state' = state]_vars

\* C15: over the lifecycle calls the height never decreases, and each
\* FinalizeBlock sets it to the request height.
C15_HeightMonotonic ==
    [][resp'.op # "Restart"
       => /\ state'.Height >= state.Height
          /\ resp'.op = "FinalizeBlock" => state'.Height = hist'.reqHeight]_vars

\* C16: num_transactions never decreases, and each FinalizeBlock increases it
\* by exactly the number of OK results it returns.
C16_NumTransactionsCountsOK ==
    [][resp'.op # "Restart"
       => /\ state'.NumTransactions >= state.NumTransactions
          /\ resp'.op = "FinalizeBlock"
             => state'.NumTransactions = state.NumTransactions
                    + Cardinality({ i \in DOMAIN resp'.TxResults :
                                      resp'.TxResults[i].Code = CodeTypeOK })]_vars

\* C17: every staged and every stored transaction has a non-empty body, len
\* equal to the body length and a signature that verifies under its signer.
C17_StagedTxInvariants ==
    /\ \A k \in DOMAIN stage :
           /\ Len(stage[k].Data) > 0
           /\ stage[k].Size = Len(stage[k].Data)
           /\ Verify(stage[k])
    /\ \A key \in TxKeys(db) :
           /\ Len(Unsealed(db[key]).Data) > 0
           /\ Unsealed(db[key]).Size = Len(Unsealed(db[key]).Data)
           /\ Verify(Unsealed(db[key]))

\* C18: the hash of every staged transaction, of every OK result, of every
\* Merkle leaf and of every storage key is the digest of (signer, body, time).
C18_HashIsDerived ==
    /\ \A k \in DOMAIN stage : stage[k].Hash = ComputeHash(stage[k])
    /\ \A i \in DOMAIN resp.TxResults :
           resp.TxResults[i].Code = CodeTypeOK => IsTxDigest(resp.TxResults[i].Data)
    /\ \A pk \in DOMAIN hist.chain :
           \A i \in DOMAIN hist.chain[pk] : IsTxDigest(hist.chain[pk][i])
    /\ \A key \in TxKeys(db) : key = prefixKey(ComputeHash(Unsealed(db[key])))

IsPrefix(a, b) == Len(a) <= Len(b) /\ SubSeq(b, 1, Len(a)) = a

\* C19: a stored transaction record is never deleted or replaced, and every
\* index list only grows at its end.
C19_AppendOnlyStore ==
    [][\A key \in DOMAIN db :
           /\ key \in DOMAIN db'
           /\ db[key][1] = "sealed" => db'[key] = db[key]
           /\ db[key][1] = "json"
              => db'[key][1] = "json" /\ IsPrefix(db[key][2], db'[key][2])]_vars

\* what the query connection can observe of an application: the answer of
\* Info and the answers of Query /hash for the hashes delivered so far
ViewOf(app) ==
    [info |-> Info(app),
     values |-> [h \in SeenHashes |->
                    Query(app, Secret, [Path |-> "/hash", Data |-> h]).Value]]

\* the application as it was when the running Commit was entered
CommitPre == [state |-> state, stage |-> stage, db |-> hist.commitPre]

\* C20: an Info or Query served while a Commit is running observes either the
\* complete view before that Commit or the complete view after it.
C20_AtomicPerCommitReads ==
    [][(/\ running.pc # "idle"
        /\ running' = running
        /\ resp'.op \in {"Query", "Info"})
       => ViewOf(App) \in {ViewOf(CommitPre),
                           ViewOf(Commit(CommitPre, Secret, Nonce, NoFault).app)}]_vars

\* C21: an Info call made after FinalizeBlock of a block and before its Commit
\* reports the num_transactions that was saved by the last Commit, not yet
\* the increase of the staged block.
C21_CounterObservedWithCommit ==
    (resp.op = "Info" /\ Len(stage) > 0)
    => resp.Data.NumTransactions = loadState(db).NumTransactions

\* C22: while the cancellation signal of a Commit is set no write reaches the
\* database, and a Commit that returns with the signal set has left the stage
\* as it was.
C22_CancelledCommitWritesNothing ==
    [][running.ctx = "cancelled"
       => /\ db' = db
          /\ stage' = stage]_vars

\* C23: once an index row exists for a height or for a signer, Query with
\* path /height or /pubkey and that key returns the list (a non-empty value).
C23_IndexQueries ==
    (/\ resp.op = "Query"
     /\ resp.Path \in {"/height", "/pubkey"}
     /\ IndexRow(db, getQueryKey(getQueryType(resp.Path), resp.Req)) # <<>>)
    => resp.Value # EmptyBytes

\* C24: Info and Query change nothing of the state, the stage and the
\* database; Query answers with the request data as Key and with the height
\* Info reports.
C24_ReadOnlyQueries ==
    [][resp'.op \in {"Info", "Query"}
       => /\ state' = state
          /\ stage' = stage
          /\ db' = db
          /\ resp'.op = "Query"
             => /\ resp'.Key = resp'.Req
                /\ resp'.Height = Info(App).LastBlockHeight]_vars

\* a Query answered in Staging after a failed Commit left a record behind
C24_Witness ==
    /\ resp.op = "Query"
    /\ resp.Path = "/height"
    /\ resp.Height = 2
    /\ Len(stage) = 2
    /\ Has(db, prefixKey(stage[1].Hash))
    /\ ~Has(db, prefixKey(stage[2].Hash))

\* C25: CheckTx, PrepareProposal and ProcessProposal change nothing of the
\* state, the stage and the database, and whatever step of the lifecycle
\* follows an answer, the same bytes get the same answer after it.
C25_StatelessValidation ==
    [][/\ resp'.op \in {"CheckTx", "PrepareProposal", "ProcessProposal"}
          => /\ state' = state
             /\ stage' = stage
             /\ db' = db
       /\ resp.op = "CheckTx"
          => \A tx \in {resp.Tx}, r \in {[Code |-> resp.Code, err |-> resp.err]} :
                 CheckTx(tx)' = r
       /\ resp.op = "PrepareProposal"
          => \A txs \in {resp.Req}, r \in {resp.Txs} : PrepareProposal(txs)' = r
       /\ resp.op = "ProcessProposal"
          => \A txs \in {resp.Req}, r \in {resp.Status} : ProcessProposal(txs)' = r]_vars

\* CheckTx returns OK for bytes that a committed block has already stored
C25_Witness ==
    /\ resp.op = "CheckTx"
    /\ resp.Code = CodeTypeOK
    /\ Has(db, prefixKey(ResultHash(resp.Tx)))
    /\ state.NumTransactions = 2

\* C26: FinalizeBlock persists nothing: every step other than Commit, and
\* FinalizeBlock in particular, leaves the database as it was, so that between
\* a FinalizeBlock and the following Commit the database is the one from
\* before the FinalizeBlock.
C26_FinalizeBlockPersistsNothing ==
    [][/\ resp'.op # "Commit" => db' = db
       /\ resp'.op = "FinalizeBlock" => db' = hist'.preFin.db]_vars

C26_Witness ==
    /\ resp.op = "FinalizeBlock"
    /\ resp.err = ""
    /\ Len(stage) > 0
    /\ loadState(db).NumTransactions > 0
    /\ state.NumTransactions > loadState(db).NumTransactions
    /\ DOMAIN state.MerkleRoots # DOMAIN loadState(db).MerkleRoots

\* C27: merkle_roots has exactly one entry per signer that has had a
\* transaction staged, under the signer's public key: every staged signer has
\* an entry, and the entries are those of the signers of the blocks delivered.
C27_OneRootPerStagedSigner ==
    /\ \A k \in DOMAIN stage : PublicKey(stage[k]) \in DOMAIN state.MerkleRoots
    /\ DOMAIN state.MerkleRoots = DOMAIN hist.chain

ZeroHash == << <<"zero">> >>

\* C29: InitChain returns the current app-hash, which for an empty store is
\* 32 zero bytes.
C29_InitChainAppHash ==
    resp.op = "InitChain"
    => /\ resp.AppHash = Hash(state)
       /\ DOMAIN state.MerkleRoots = {} => resp.AppHash = ZeroHash

\* the signed-transaction invariants of the data model for a transaction in
\* memory
ValidStx(p) ==
    /\ p.Size = Len(p.Data)
    /\ Len(p.Data) > 0
    /\ Verify(p)
    /\ p.Hash \in {<<>>, ComputeHash(p)}

\* C30 as stated: decoding the encoding of a valid transaction T gives a
\* record equal to T in signer, signature, body, len, time and hash, the hash
\* being populated by the encoding when T's is empty.
C30_CodecRoundTripAsStated ==
    (resp.op = "Codec" /\ ValidStx(resp.Txs[1]))
    => /\ resp.err = ""
       /\ resp.Value.Hash = ComputeHash(resp.Txs[1])
       /\ resp.Txs[2].Signer = resp.Txs[1].Signer
       /\ resp.Txs[2].Signature = resp.Txs[1].Signature
       /\ resp.Txs[2].Data = resp.Txs[1].Data
       /\ resp.Txs[2].Size = resp.Txs[1].Size
       /\ resp.Txs[2].Time = resp.Txs[1].Time
       /\ resp.Txs[2].Hash = ComputeHash(resp.Txs[1])

\* C30: decoding the encoding of a valid transaction T gives a record equal
\* to T in signer, signature, body, len and hash, the hash being populated by
\* the encoding when T's is empty, and with T's time truncated to whole
\* seconds: equal to T's time when that has no sub-second part.
C30_CodecRoundTrip ==
    (resp.op = "Codec" /\ ValidStx(resp.Txs[1]))
    => /\ resp.err = ""
       /\ resp.Value.Hash = ComputeHash(resp.Txs[1])
       /\ resp.Txs[2].Signer = resp.Txs[1].Signer
       /\ resp.Txs[2].Signature = resp.Txs[1].Signature
       /\ resp.Txs[2].Data = resp.Txs[1].Data
       /\ resp.Txs[2].Size = resp.Txs[1].Size
       /\ resp.Txs[2].Time = [secs |-> resp.Txs[1].Time.secs, nanos |-> 0]
       /\ resp.Txs[1].Time.nanos = 0 => resp.Txs[2].Time = resp.Txs[1].Time
       /\ resp.Txs[2].Hash = ComputeHash(resp.Txs[1])
       /\ NewSignedTransactionFromBytes(resp.Value).stx = resp.Txs[2]

C30_Witness ==
    /\ resp.op = "Codec"
    /\ ValidStx(resp.Txs[1])
    /\ resp.Txs[1].Hash = <<>>
    /\ resp.Txs[1].Time.nanos # 0
    /\ resp.Txs[2].Hash = ComputeHash(resp.Txs[1])
    /\ resp.Txs[2].Time # resp.Txs[1].Time
    /\ resp.Txs[2].Data = <<1, 2>>

\* C31: the hash of a transaction is the same for every sub-second part of
\* its time, and the hash computed before encoding is the hash computed after
\* decoding the encoded bytes.
C31_HashStability ==
    resp.op \in {"Codec", "CodecTxGo"}
    => /\ \A n \in 0..MaxNanos :
              ComputeHash([resp.Txs[1] EXCEPT !.Time.nanos = n]) = ComputeHash(resp.Txs[1])
       /\ resp.err = ""
       /\ ComputeHash(resp.Txs[2]) = ComputeHash(resp.Txs[1])

C33_EncryptDecryptRoundTrip ==
    /\ resp.op = "Encrypt"
       => IF KeySize(resp.Req[1]) \in {16, 24, 32}
          THEN resp.err = "" /\ resp.Value # <<>>
          ELSE resp.err # "" /\ resp.Value = <<>>
    /\ resp.op = "Decrypt"
       => IF resp.Req[3] = resp.Req[1]
          THEN resp.err = "" /\ resp.Value = resp.Req[2]
          ELSE resp.err # "" /\ resp.Value = <<>>

C33_Witness ==
    /\ resp.op = "Decrypt"
    /\ KeySize(resp.Req[1]) = 32
    /\ resp.Req[3] = resp.Req[1]
    /\ resp.Value = <<7>>

\* C34: GenerateSecret with an 8-byte salt returns SHA256(salt || pw) and the
\* salt given; with an empty salt it returns an 8-byte salt with which a
\* second call gives the same secret; it fails for an empty password and for
\* a salt of a length other than 0 and 8.
C34_SecretDerivation ==
    resp.op = "GenerateSecret"
    => LET pw == resp.Req[1]
           salt == resp.Req[2]
       IN  IF Len(pw) = 0 \/ Len(salt) \notin {0, 8}
           THEN resp.err # ""
           ELSE /\ resp.err = ""
                /\ KeySize(resp.Value.secret) = 32
                /\ resp.Value.secret = tmhashSum(resp.Value.salt \o pw)
                /\ Len(resp.Value.salt) = 8
                /\ Len(salt) = 8 => resp.Value.salt = salt
                /\ \A random \in Salts :
                       GenerateSecret(pw, resp.Value.salt, random) =
                           [err |-> FALSE, secret |-> resp.Value.secret,
                            salt |-> resp.Value.salt]

C34_Witness ==
    /\ resp.op = "GenerateSecret"
    /\ resp.Req = << <<2>>, <<>> >>
    /\ resp.err = ""
    /\ resp.Value.salt = <<2, 2, 2, 2, 2, 2, 2, 2>>

\* C35: after every successful Commit num_transactions is the number of
\* transaction records held in the store.
C35_CounterMatchesStore ==
    (resp.op = "Commit" /\ resp.err = "")
    => state.NumTransactions = Cardinality(TxKeys(db))

\* the list by_signer[pk] of the store
BySigner(d, pk) == IndexRow(d, prefixKeyWith(SignerBytes(pk), vfsPrefixKeyByPubKey))

\* C36: after every successful Commit, merkle_roots has an entry for exactly
\* the signers whose by_signer list is not empty, and the entry is the fold of
\* that list in its stored order.
C36_CommitmentsMatchStore ==
    (resp.op = "Commit" /\ resp.err = "")
    => \A pk \in DOMAIN state.MerkleRoots \cup { t.Signer : t \in hist.stored } :
           /\ pk \in DOMAIN state.MerkleRoots <=> BySigner(db, pk) # <<>>
           /\ BySigner(db, pk) # <<>> => state.MerkleRoots[pk] = FoldOf(BySigner(db, pk))

\* C37: the list PrepareProposal returns is accepted by ProcessProposal, and
\* PrepareProposal returns it unchanged when applied to it.
C37_PreparedProposalAccepted ==
    resp.op = "PrepareProposal"
    => /\ ProcessProposal(resp.Txs) = "ACCEPT"
       /\ PrepareProposal(resp.Txs) = resp.Txs

C37_Witness ==
    /\ resp.op = "PrepareProposal"
    /\ Len(resp.Req) = 4
    /\ Len(resp.Txs) = 2
    /\ resp.Txs[1] # resp.Txs[2]
    /\ ProcessProposal(resp.Req) = "REJECT"
    /\ ProcessProposal(resp.Txs) = "ACCEPT"

\* a key of the height index, of the signer index or of the state record
IsIndexKey(key) ==
    \/ key = stateKey
    \/ IsPrefix(vfsPrefixKeyByHeight, key)
    \/ IsPrefix(vfsPrefixKeyByPubKey, key)

\* C38: a transaction record is only ever stored at "vfs:" followed by a
\* transaction digest, never at a key of the height index, the signer index or
\* the state record, and no step replaces a stored record at such a key.
C38_KeyspaceSeparation ==
    [][/\ \A key \in TxKeys(db') :
              /\ \E h \in {SubSeq(key, 2, Len(key))} : key = prefixKey(h) /\ IsTxDigest(h)
              /\ ~IsIndexKey(key)
       /\ \A key \in TxKeys(db) : IsIndexKey(key) => db'[key] = db[key]]_vars

\* a transaction record is stored under the hash
HasRecord(d, hash) == Has(d, prefixKey(hash)) /\ Get(d, prefixKey(hash))[1] = "sealed"

\* C39: Query by hash (path /hash, empty or unknown) for a hash with no stored
\* record returns without error, with code 0, an empty value and the request
\* data as Key.
C39_AbsentHashIsNormalAnswer ==
    (/\ resp.op = "Query"
     /\ getQueryType(resp.Path) = "hash"
     /\ ~HasRecord(db, resp.Req))
    => /\ resp.err = ""
       /\ resp.Code = CodeTypeOK
       /\ resp.Value = EmptyBytes
       /\ resp.Key = resp.Req

ByHeight(d, h) == IndexRow(d, prefixKeyWith(FormatInt(h), vfsPrefixKeyByHeight))

NoDuplicates(list) == \A i, j \in DOMAIN list : list[i] = list[j] => i = j

\* C40: every hash listed in by_height[h] or by_signer[pk] has a transaction
\* record stored under it, a hash listed in by_signer[pk] is of a transaction
\* signed by pk, and no list names a hash twice.
C40_IndexSoundness ==
    /\ \A h \in Heights :
           /\ \A i \in DOMAIN ByHeight(db, h) : HasRecord(db, ByHeight(db, h)[i])
           /\ NoDuplicates(ByHeight(db, h))
    /\ \A pk \in {1, 2} :
           /\ \A i \in DOMAIN BySigner(db, pk) :
                  /\ HasRecord(db, BySigner(db, pk)[i])
                  /\ Unsealed(Get(db, prefixKey(BySigner(db, pk)[i]))).Signer = pk
           /\ NoDuplicates(BySigner(db, pk))

====
